---- MODULE Spec2Model ----
(***************************************************************************)
(* Model of sf::Text (src/SFML/Graphics/Text.cpp): the string, font,       *)
(* character size and style of a text, its lazily recomputed bounding      *)
(* rectangle, and the three character walks (GetCharacterPos, Render,      *)
(* UpdateRect).                                                            *)
(*                                                                         *)
(* Numbers.  The code computes in float.  Every quantity here is an exact  *)
(* integer number of thousandths of a pixel, so that 0.208f, 0.1f and      *)
(* 0.07f times an integer size are represented exactly; float rounding is  *)
(* not modelled.  Glyph metrics, kerning and line spacing are the integers *)
(* (pixels) that sf::Font returns, multiplied by Unit where they are cast  *)
(* to float.                                                               *)
(*                                                                         *)
(* Style.  The style bitmask is modelled as the set of its flags:          *)
(* (myStyle & Bold) != 0 is "Bold" \in myStyle, Regular is {}.             *)
(***************************************************************************)
EXTENDS Integers, Sequences, FiniteSets, TLC

VARIABLES myString, myFont, myCharacterSize, myStyle, myRectUpdated, myBaseRect, last

vars == <<myString, myFont, myCharacterSize, myStyle, myRectUpdated, myBaseRect, last>>

----------------------------------------------------------------------------
(* Bounds *)

\* longest string of the layout specification
MaxLen == 3

\* longest string given to the constructor and to SetString in Spec
MaxSetLen == 1

----------------------------------------------------------------------------
(* Characters, styles, sizes *)

Unit == 1000

SP == 32

TAB == 9

VT == 11

LF == 10

\* 'a' sits on the baseline, 'g' has a descender, '-' ends above the baseline
GlyphChars == {97, 103, 45}

Chars == {SP, TAB, VT, LF} \cup GlyphChars

\* characters of the strings set in Spec
SetChars == {97, LF}

Regular == {}

Styles == SUBSET {"Bold", "Italic", "Underlined"}

DefaultCharacterSize == 30

Sizes == {10, DefaultCharacterSize}

ItalicCoeff == 208

UnderlineOffsetCoeff == 100

UnderlineThicknessBold == 100

UnderlineThicknessRegular == 70

----------------------------------------------------------------------------
(* The font service (sf::Font), consumed through GetGlyph, GetKerning and  *)
(* GetLineSpacing.  Two fonts: font 1 (the default font) has fixed         *)
(* advances and no kerning; font 2 has kerning, also between two spaces.   *)

DefaultFont == 1

Fonts == {1, 2}

GetGlyph(font, c, size, bold) ==
    LET adv == (size \div 2) + (IF bold THEN 1 ELSE 0) + (IF font = 2 THEN 2 ELSE 0)
        top == 0 - (size \div 2)
    IN  IF c = 97 THEN [Advance |-> adv, Left |-> 0, Top |-> top, Right |-> adv - 1, Bottom |-> 0]
        ELSE IF c = 103 THEN [Advance |-> adv, Left |-> 0, Top |-> top, Right |-> adv - 1,
                              Bottom |-> IF font = 1 THEN (3 * size) \div 10 ELSE size \div 10]
        ELSE IF c = 45 THEN [Advance |-> adv, Left |-> 0, Top |-> top, Right |-> adv - 1,
                             Bottom |-> 0 - (size \div 5)]
        ELSE [Advance |-> adv, Left |-> 0, Top |-> 0, Right |-> 0, Bottom |-> 0]

GetKerning(font, prev, cur, size) ==
    IF prev = 0 \/ font = 1 THEN 0
    ELSE IF prev = SP /\ cur = SP THEN 1
    ELSE IF prev = 97 /\ cur = 103 THEN 0 - 1
    ELSE 0

GetLineSpacing(font, size) ==
    IF font = 1 THEN (6 * size) \div 5 ELSE size + 3

----------------------------------------------------------------------------
(* Text::GetCharacterPos *)

\* GetCharacterPosStep with a line feed that keeps x
GetCharacterPosStepKeepX(p, curChar, font, size, bold, space, lineSpacing) ==
    LET x1 == p.x + Unit * GetKerning(font, p.prevChar, curChar, size)
    IN  IF curChar = SP THEN [x |-> x1 + space, y |-> p.y, prevChar |-> curChar]
        ELSE IF curChar = TAB THEN [x |-> x1 + space * 4, y |-> p.y, prevChar |-> curChar]
        ELSE IF curChar = VT THEN [x |-> x1, y |-> p.y + lineSpacing * 4, prevChar |-> curChar]
        ELSE IF curChar = LF THEN [x |-> x1, y |-> p.y + lineSpacing, prevChar |-> curChar]
        ELSE [x |-> x1 + Unit * GetGlyph(font, curChar, size, bold).Advance,
              y |-> p.y, prevChar |-> curChar]

\* GetCharacterPosStep with a tab of three spaces
GetCharacterPosStepTab3(p, curChar, font, size, bold, space, lineSpacing) ==
    LET x1 == p.x + Unit * GetKerning(font, p.prevChar, curChar, size)
    IN  IF curChar = SP THEN [x |-> x1 + space, y |-> p.y, prevChar |-> curChar]
        ELSE IF curChar = TAB THEN [x |-> x1 + space * 3, y |-> p.y, prevChar |-> curChar]
        ELSE IF curChar = VT THEN [x |-> x1, y |-> p.y + lineSpacing * 4, prevChar |-> curChar]
        ELSE IF curChar = LF THEN [x |-> 0, y |-> p.y + lineSpacing, prevChar |-> curChar]
        ELSE [x |-> x1 + Unit * GetGlyph(font, curChar, size, bold).Advance,
              y |-> p.y, prevChar |-> curChar]

GetCharacterPosStep(p, curChar, font, size, bold, space, lineSpacing) ==
    LET x1 == p.x + Unit * GetKerning(font, p.prevChar, curChar, size)
    IN  IF curChar = SP THEN [x |-> x1 + space, y |-> p.y, prevChar |-> curChar]
        ELSE IF curChar = TAB THEN [x |-> x1 + space * 4, y |-> p.y, prevChar |-> curChar]
        ELSE IF curChar = VT THEN [x |-> x1, y |-> p.y + lineSpacing * 4, prevChar |-> curChar]
        ELSE IF curChar = LF THEN [x |-> 0, y |-> p.y + lineSpacing, prevChar |-> curChar]
        ELSE [x |-> x1 + Unit * GetGlyph(font, curChar, size, bold).Advance,
              y |-> p.y, prevChar |-> curChar]

RECURSIVE GetCharacterPosLoop(_, _, _, _, _)
GetCharacterPosLoop(s, n, font, size, bold) ==
    IF n = 0 THEN [x |-> 0, y |-> 0, prevChar |-> 0]
    ELSE GetCharacterPosStep(GetCharacterPosLoop(s, n - 1, font, size, bold), s[n], font, size, bold,
                             Unit * GetGlyph(font, SP, size, bold).Advance,
                             Unit * GetLineSpacing(font, size))

CharacterPosOf(s, index, font, size, style) ==
    LET idx == IF index > Len(s) THEN Len(s) ELSE index
        p   == GetCharacterPosLoop(s, idx, font, size, "Bold" \in style)
    IN  [x |-> p.x, y |-> p.y]

----------------------------------------------------------------------------
(* Text::Render *)

UnderlineOffset(size) == size * UnderlineOffsetCoeff

UnderlineThickness(size, bold) ==
    size * (IF bold THEN UnderlineThicknessBold ELSE UnderlineThicknessRegular)

UnderlineQuad(x, y, size, bold) ==
    LET top    == y + UnderlineOffset(size)
        bottom == top + UnderlineThickness(size, bold)
    IN  [kind |-> "underline", tex |-> 0,
         v |-> << [x |-> 0, y |-> top], [x |-> x, y |-> top],
                  [x |-> x, y |-> bottom], [x |-> 0, y |-> bottom] >>]

GlyphQuad(x, y, curChar, g, italicCoeff) ==
    [kind |-> "glyph", tex |-> curChar,
     v |-> << [x |-> x + Unit * g.Left  - italicCoeff * g.Top,    y |-> y + Unit * g.Top],
              [x |-> x + Unit * g.Right - italicCoeff * g.Top,    y |-> y + Unit * g.Top],
              [x |-> x + Unit * g.Right - italicCoeff * g.Bottom, y |-> y + Unit * g.Bottom],
              [x |-> x + Unit * g.Left  - italicCoeff * g.Bottom, y |-> y + Unit * g.Bottom] >>]

\* RenderStep without the vertical-tab case: the vertical tab is drawn as a glyph
RenderStepNoVT(w, curChar, font, size, style, space, lineSpacing) ==
    LET bold        == "Bold" \in style
        underlined  == "Underlined" \in style
        italicCoeff == IF "Italic" \in style THEN ItalicCoeff ELSE 0
        x1 == w.x + Unit * GetKerning(font, w.prevChar, curChar, size)
        q1 == IF underlined /\ curChar = LF
              THEN Append(w.quads, UnderlineQuad(x1, w.y, size, bold))
              ELSE w.quads
        g  == GetGlyph(font, curChar, size, bold)
    IN  IF curChar = SP THEN [x |-> x1 + space, y |-> w.y, prevChar |-> curChar, quads |-> q1]
        ELSE IF curChar = TAB THEN [x |-> x1 + space * 4, y |-> w.y, prevChar |-> curChar, quads |-> q1]
        ELSE IF curChar = LF THEN [x |-> 0, y |-> w.y + lineSpacing, prevChar |-> curChar, quads |-> q1]
        ELSE [x |-> x1 + Unit * g.Advance, y |-> w.y, prevChar |-> curChar,
              quads |-> Append(q1, GlyphQuad(x1, w.y, curChar, g, italicCoeff))]

RenderStep(w, curChar, font, size, style, space, lineSpacing) ==
    LET bold        == "Bold" \in style
        underlined  == "Underlined" \in style
        italicCoeff == IF "Italic" \in style THEN ItalicCoeff ELSE 0
        x1 == w.x + Unit * GetKerning(font, w.prevChar, curChar, size)
        q1 == IF underlined /\ curChar = LF
              THEN Append(w.quads, UnderlineQuad(x1, w.y, size, bold))
              ELSE w.quads
        g  == GetGlyph(font, curChar, size, bold)
    IN  IF curChar = SP THEN [x |-> x1 + space, y |-> w.y, prevChar |-> curChar, quads |-> q1]
        ELSE IF curChar = TAB THEN [x |-> x1 + space * 4, y |-> w.y, prevChar |-> curChar, quads |-> q1]
        ELSE IF curChar = LF THEN [x |-> 0, y |-> w.y + lineSpacing, prevChar |-> curChar, quads |-> q1]
        ELSE IF curChar = VT THEN [x |-> x1, y |-> w.y + lineSpacing * 4, prevChar |-> curChar, quads |-> q1]
        ELSE [x |-> x1 + Unit * g.Advance, y |-> w.y, prevChar |-> curChar,
              quads |-> Append(q1, GlyphQuad(x1, w.y, curChar, g, italicCoeff))]

RECURSIVE RenderLoop(_, _, _, _, _)
RenderLoop(s, n, font, size, style) ==
    IF n = 0 THEN [x |-> 0, y |-> Unit * size, prevChar |-> 0, quads |-> << >>]
    ELSE RenderStep(RenderLoop(s, n - 1, font, size, style), s[n], font, size, style,
                    Unit * GetGlyph(font, SP, size, "Bold" \in style).Advance,
                    Unit * GetLineSpacing(font, size))

RenderQuads(s, font, size, style) ==
    IF s = << >> THEN << >>
    ELSE LET w == RenderLoop(s, Len(s), font, size, style)
         IN  IF "Underlined" \in style
             THEN Append(w.quads, UnderlineQuad(w.x, w.y, size, "Bold" \in style))
             ELSE w.quads

----------------------------------------------------------------------------
(* Text::UpdateRect.  myFont is set from a reference by the constructors  *)
(* and by SetFont, so the !myFont branches are never taken.               *)

ZeroRect == [Left |-> 0, Top |-> 0, Right |-> 0, Bottom |-> 0]

\* UpdateRectStep with a vertical tab that closes the line as a line feed does
UpdateRectStepVTCloses(w, curChar, font, size, bold, space, lineSpacing) ==
    LET cw1 == w.curWidth + Unit * GetKerning(font, w.prevChar, curChar, size)
        g   == GetGlyph(font, curChar, size, bold)
        charHeight == Unit * size + Unit * g.Bottom
    IN  IF curChar = SP
        THEN [w EXCEPT !.curWidth = cw1 + space, !.prevChar = curChar]
        ELSE IF curChar = TAB
        THEN [w EXCEPT !.curWidth = cw1 + space * 4, !.prevChar = curChar]
        ELSE IF curChar = VT
        THEN [w EXCEPT !.height = w.height + lineSpacing * 4, !.curHeight = 0,
                       !.width = IF cw1 > w.width THEN cw1 ELSE w.width,
                       !.curWidth = 0, !.prevChar = curChar]
        ELSE IF curChar = LF
        THEN [w EXCEPT !.height = w.height + lineSpacing, !.curHeight = 0,
                       !.width = IF cw1 > w.width THEN cw1 ELSE w.width,
                       !.curWidth = 0, !.prevChar = curChar]
        ELSE [w EXCEPT !.curWidth = cw1 + Unit * g.Advance,
                       !.curHeight = IF charHeight > w.curHeight THEN charHeight ELSE w.curHeight,
                       !.prevChar = curChar]

UpdateRectStep(w, curChar, font, size, bold, space, lineSpacing) ==
    LET cw1 == w.curWidth + Unit * GetKerning(font, w.prevChar, curChar, size)
        g   == GetGlyph(font, curChar, size, bold)
        charHeight == Unit * size + Unit * g.Bottom
    IN  IF curChar = SP
        THEN [w EXCEPT !.curWidth = cw1 + space, !.prevChar = curChar]
        ELSE IF curChar = TAB
        THEN [w EXCEPT !.curWidth = cw1 + space * 4, !.prevChar = curChar]
        ELSE IF curChar = VT
        THEN [w EXCEPT !.curWidth = cw1, !.height = w.height + lineSpacing * 4,
                       !.curHeight = 0, !.prevChar = curChar]
        ELSE IF curChar = LF
        THEN [w EXCEPT !.height = w.height + lineSpacing, !.curHeight = 0,
                       !.width = IF cw1 > w.width THEN cw1 ELSE w.width,
                       !.curWidth = 0, !.prevChar = curChar]
        ELSE [w EXCEPT !.curWidth = cw1 + Unit * g.Advance,
                       !.curHeight = IF charHeight > w.curHeight THEN charHeight ELSE w.curHeight,
                       !.prevChar = curChar]

RECURSIVE UpdateRectLoop(_, _, _, _, _)
UpdateRectLoop(s, n, font, size, bold) ==
    IF n = 0 THEN [curWidth |-> 0, curHeight |-> 0, width |-> 0, height |-> 0, prevChar |-> 0]
    ELSE UpdateRectStep(UpdateRectLoop(s, n - 1, font, size, bold), s[n], font, size, bold,
                        Unit * GetGlyph(font, SP, size, bold).Advance,
                        Unit * GetLineSpacing(font, size))

\* the part of UpdateRect after the loop: last line, italic and underline allowances
FinishRect(w, size, style) ==
    LET bold     == "Bold" \in style
        charSize == Unit * size
        width1   == IF w.curWidth > w.width THEN w.curWidth ELSE w.width
        height1  == w.height + w.curHeight
        width2   == IF "Italic" \in style THEN width1 + ItalicCoeff * size ELSE width1
        height2  == IF "Underlined" \in style
                       /\ w.curHeight < charSize + UnderlineOffset(size) + UnderlineThickness(size, bold)
                    THEN height1 + UnderlineOffset(size) + UnderlineThickness(size, bold)
                    ELSE height1
    IN  [Left |-> 0, Top |-> 0, Right |-> width2, Bottom |-> height2]

\* ComputeRect without the early return on an empty string
ComputeRectNoEmptyCheck(s, font, size, style) ==
    FinishRect(UpdateRectLoop(s, Len(s), font, size, "Bold" \in style), size, style)

\* the rectangle UpdateRect stores when it does not return at once
ComputeRect(s, font, size, style) ==
    IF s = << >> THEN ZeroRect
    ELSE FinishRect(UpdateRectLoop(s, Len(s), font, size, "Bold" \in style), size, style)

----------------------------------------------------------------------------
(* Inputs *)

SeqsUpTo(S, n) == UNION {[1..k -> S] : k \in 0..n}

FourSpaces == <<SP, SP, SP, SP>>

\* strings of the layout specification
Strings == SeqsUpTo(Chars, MaxLen) \cup {FourSpaces}

\* strings of the constructor and of SetString in Spec
SetStrings == SeqsUpTo(SetChars, MaxSetLen)

----------------------------------------------------------------------------
(* State.  last records the operation that ran last and what it returned   *)
(* (pos for GetCharacterPos, rect for GetRect, quads for the vertices      *)
(* Render handed to the renderer); same tells whether a setter was given   *)
(* the value the text already had.                                         *)

NoPos == [x |-> 0, y |-> 0]

Last(op, same, index, pos, rect, quads) ==
    [op |-> op, same |-> same, index |-> index, pos |-> pos, rect |-> rect, quads |-> quads]

Setter(op, same) == Last(op, same, 0, NoPos, ZeroRect, << >>)

\* Text::Text()
TextDefault ==
    /\ myString = << >>
    /\ myFont = DefaultFont
    /\ myCharacterSize = DefaultCharacterSize
    /\ myStyle = Regular
    /\ myRectUpdated = TRUE
    /\ myBaseRect = ZeroRect
    /\ last = Setter("Text", FALSE)

\* Text::Text(string, font, characterSize), SetString(string) included
TextFrom(string, font, characterSize) ==
    /\ myString = string
    /\ myFont = font
    /\ myCharacterSize = characterSize
    /\ myStyle = Regular
    /\ myRectUpdated = FALSE
    /\ myBaseRect = ZeroRect
    /\ last = Setter("Text", FALSE)

Init ==
    \/ TextDefault
    \/ \E string \in SetStrings, font \in Fonts, characterSize \in Sizes :
          TextFrom(string, font, characterSize)

SetString(string) ==
    /\ myString' = string
    /\ myRectUpdated' = FALSE
    /\ last' = Setter("SetString", string = myString)
    /\ UNCHANGED <<myFont, myCharacterSize, myStyle, myBaseRect>>

SetFont(font) ==
    /\ IF myFont # font
       THEN myFont' = font /\ myRectUpdated' = FALSE
       ELSE UNCHANGED <<myFont, myRectUpdated>>
    /\ last' = Setter("SetFont", font = myFont)
    /\ UNCHANGED <<myString, myCharacterSize, myStyle, myBaseRect>>

SetCharacterSize(size) ==
    /\ IF myCharacterSize # size
       THEN myCharacterSize' = size /\ myRectUpdated' = FALSE
       ELSE UNCHANGED <<myCharacterSize, myRectUpdated>>
    /\ last' = Setter("SetCharacterSize", size = myCharacterSize)
    /\ UNCHANGED <<myString, myFont, myStyle, myBaseRect>>

\* SetStyle that leaves the cached rectangle marked up to date
SetStyleKeepsCache(style) ==
    /\ myStyle' = style
    /\ last' = Setter("SetStyle", style = myStyle)
    /\ UNCHANGED <<myString, myFont, myCharacterSize, myRectUpdated, myBaseRect>>

SetStyle(style) ==
    /\ IF myStyle # style
       THEN myStyle' = style /\ myRectUpdated' = FALSE
       ELSE UNCHANGED <<myStyle, myRectUpdated>>
    /\ last' = Setter("SetStyle", style = myStyle)
    /\ UNCHANGED <<myString, myFont, myCharacterSize, myBaseRect>>

GetCharacterPos(index) ==
    /\ last' = Last("GetCharacterPos", FALSE, index,
                    CharacterPosOf(myString, index, myFont, myCharacterSize, myStyle),
                    ZeroRect, << >>)
    /\ UNCHANGED <<myString, myFont, myCharacterSize, myStyle, myRectUpdated, myBaseRect>>

UpdateRect ==
    /\ myRectUpdated' = TRUE
    /\ myBaseRect' = IF myRectUpdated THEN myBaseRect
                     ELSE ComputeRect(myString, myFont, myCharacterSize, myStyle)

\* GetRect of a text whose origin and position are (0, 0) and whose scale is (1, 1),
\* the values of a Drawable that no operation here changes
GetRect ==
    /\ UpdateRect
    /\ last' = Last("GetRect", FALSE, 0, NoPos, myBaseRect', << >>)
    /\ UNCHANGED <<myString, myFont, myCharacterSize, myStyle>>

Render ==
    /\ last' = Last("Render", FALSE, 0, NoPos, ZeroRect,
                    RenderQuads(myString, myFont, myCharacterSize, myStyle))
    /\ UNCHANGED <<myString, myFont, myCharacterSize, myStyle, myRectUpdated, myBaseRect>>

Queries ==
    \/ \E index \in 0..(Len(myString) + 1) : GetCharacterPos(index)
    \/ GetRect
    \/ Render

Next ==
    \/ \E string \in SetStrings : SetString(string)
    \/ \E font \in Fonts : SetFont(font)
    \/ \E size \in Sizes : SetCharacterSize(size)
    \/ \E style \in Styles : SetStyle(style)
    \/ Queries

Spec == Init /\ [][Next]_vars

\* The layout specification: a text constructed from any string, font and size
\* and given any style, on which only the queries run.
LayoutInit ==
    \E string \in Strings, font \in Fonts, characterSize \in Sizes, style \in Styles :
        /\ myString = string
        /\ myFont = font
        /\ myCharacterSize = characterSize
        /\ myStyle = style
        /\ myRectUpdated = FALSE
        /\ myBaseRect = ZeroRect
        /\ last = Setter("SetStyle", FALSE)

LayoutNext == Queries

LayoutSpec == LayoutInit /\ [][LayoutNext]_vars

----------------------------------------------------------------------------
(* Properties *)

Setters == {"SetString", "SetFont", "SetCharacterSize", "SetStyle"}

Special == {SP, TAB, VT, LF}

\* number of occurrences of a character of C among the first n characters of s
CountIn(s, n, C) == Cardinality({i \in 1..n : s[i] \in C})

CurrentRect == ComputeRect(myString, myFont, myCharacterSize, myStyle)

ClampedIndex == IF last.index > Len(myString) THEN Len(myString) ELSE last.index

\* C1: a setter called with the value the text already has, while the cached
\* rectangle is up to date, leaves it up to date (for each of the four setters).
C1_IdenticalValueKeepsCache ==
    [][(last'.op \in Setters /\ last'.same /\ myRectUpdated) => myRectUpdated']_vars

\* C2: whenever the cache is marked up to date, the cached rectangle is the one a
\* fresh computation over the current string, font, size and style gives, and
\* GetRect returns that rectangle.
C2_CacheIsFresh ==
    /\ myRectUpdated => myBaseRect = CurrentRect
    /\ last.op = "GetRect" => (myRectUpdated /\ last.rect = CurrentRect)

C2_Witness ==
    /\ last.op = "GetRect"
    /\ myRectUpdated
    /\ myString # << >>
    /\ myStyle = {"Italic", "Underlined"}
    /\ myFont # DefaultFont
    /\ myBaseRect # ZeroRect

\* C3: every vertex of every glyph quad that Render emits lies inside
\* [0, width] x [0, height] of the bounding rectangle.
C3_BoundsEncloseGlyphs ==
    (last.op = "Render" /\ myString # << >>) =>
        \A i \in 1..Len(last.quads) :
            last.quads[i].kind = "glyph" =>
                \A j \in 1..4 :
                    /\ last.quads[i].v[j].x >= 0
                    /\ last.quads[i].v[j].x <= CurrentRect.Right
                    /\ last.quads[i].v[j].y >= 0
                    /\ last.quads[i].v[j].y <= CurrentRect.Bottom

\* C4: with Underlined set and a non-empty string, the bottom edge of the final
\* underline quad is not below the bottom of the bounding rectangle.
C4_LastUnderlineInsideBounds ==
    (last.op = "Render" /\ myString # << >> /\ "Underlined" \in myStyle) =>
        last.quads[Len(last.quads)].v[3].y <= CurrentRect.Bottom

\* C5: Render of a non-empty string emits one glyph quad per character that is
\* not a space, tab, vertical tab or line feed, and, only when Underlined is set,
\* one underline quad per line feed and one final underline quad.
C5_QuadCount ==
    (last.op = "Render" /\ myString # << >>) =>
        LET n == Len(myString)
            glyphs     == Cardinality({i \in 1..Len(last.quads) : last.quads[i].kind = "glyph"})
            underlines == Cardinality({i \in 1..Len(last.quads) : last.quads[i].kind = "underline"})
        IN  /\ glyphs = n - CountIn(myString, n, Special)
            /\ underlines = IF "Underlined" \in myStyle THEN CountIn(myString, n, {LF}) + 1 ELSE 0

C5_Witness ==
    /\ last.op = "Render"
    /\ Len(myString) = 3
    /\ CountIn(myString, 3, Special) = 0
    /\ "Underlined" \in myStyle
    /\ Len(last.quads) = 4

\* C6: a text whose string is empty has the bounding rectangle (0, 0, 0, 0) and
\* Render emits no quad, whatever the font and the style.
C6_EmptyString ==
    myString = << >> =>
        /\ last.op = "GetRect" => last.rect = ZeroRect
        /\ last.op = "Render" => last.quads = << >>
        /\ myRectUpdated => myBaseRect = ZeroRect

\* the string was set back to empty: the rectangle of the earlier string is
\* still stored, and GetRect has not run since
C6_WitnessRender ==
    /\ myString = << >>
    /\ last.op = "Render"
    /\ "Underlined" \in myStyle
    /\ ~myRectUpdated
    /\ myBaseRect # ZeroRect

\* C7: the position of a character that follows a line feed has x = 0, and y is
\* the line spacing times (line feeds + 4 * vertical tabs) before it.
C7_LineFeedResetsX ==
    (last.op = "GetCharacterPos" /\ last.index >= 1 /\ last.index <= Len(myString)
        /\ myString[last.index] = LF) =>
        /\ last.pos.x = 0
        /\ last.pos.y = Unit * GetLineSpacing(myFont, myCharacterSize)
                          * (CountIn(myString, last.index, {LF})
                             + 4 * CountIn(myString, last.index, {VT}))

C7_Witness ==
    /\ last.op = "GetCharacterPos"
    /\ myString = <<VT, 97, LF>>
    /\ last.index = 3
    /\ last.pos = [x |-> 0, y |-> 5 * Unit * GetLineSpacing(myFont, myCharacterSize)]

TabVersusFourSpaces ==
    /\ (last.op = "GetCharacterPos" /\ myString = <<TAB>> /\ last.index = 1) =>
           last.pos = CharacterPosOf(FourSpaces, 4, myFont, myCharacterSize, myStyle)
    /\ (last.op = "GetCharacterPos" /\ myString = FourSpaces /\ last.index = 4) =>
           last.pos = CharacterPosOf(<<TAB>>, 1, myFont, myCharacterSize, myStyle)

\* C8 as stated: for any font, size and style the position after a tab is the
\* position after four spaces.
C8_TabEqualsFourSpaces == TabVersusFourSpaces

\* C8 as amended: for any size and style and any font whose kerning between two
\* spaces is zero, the position after a tab is the position after four spaces.
C8_TabEqualsFourSpacesNoSpaceKerning ==
    GetKerning(myFont, SP, SP, myCharacterSize) = 0 => TabVersusFourSpaces

C8_Witness ==
    /\ last.op = "GetCharacterPos"
    /\ myString = FourSpaces
    /\ last.index = 4
    /\ GetKerning(myFont, SP, SP, myCharacterSize) = 0
    /\ last.pos.x = 4 * Unit * GetGlyph(myFont, SP, myCharacterSize, "Bold" \in myStyle).Advance

\* C9: with Underlined set, the last line contributes exactly
\* characterSize + underlineOffset + underlineThickness to the height when its
\* curHeight is below that threshold, and curHeight otherwise.
C9_UnderlineAddsShortfall ==
    (last.op = "GetRect" /\ myString # << >> /\ "Underlined" \in myStyle) =>
        LET bold == "Bold" \in myStyle
            w    == UpdateRectLoop(myString, Len(myString), myFont, myCharacterSize, bold)
            threshold == Unit * myCharacterSize + UnderlineOffset(myCharacterSize)
                           + UnderlineThickness(myCharacterSize, bold)
        IN  last.rect.Bottom =
                w.height + (IF w.curHeight < threshold THEN threshold ELSE w.curHeight)

\* C10: before every character i, the cursor of the Render walk is
\* (GetCharacterPos(i).x, GetCharacterPos(i).y + characterSize) and the current
\* line width of the UpdateRect walk is GetCharacterPos(i).x.
C10_WalksAgree ==
    last.op = "GetCharacterPos" =>
        LET r == RenderLoop(myString, ClampedIndex, myFont, myCharacterSize, myStyle)
            u == UpdateRectLoop(myString, ClampedIndex, myFont, myCharacterSize, "Bold" \in myStyle)
        IN  /\ r.x = last.pos.x
            /\ r.y = last.pos.y + Unit * myCharacterSize
            /\ u.curWidth = last.pos.x

C10_Witness ==
    /\ last.op = "GetCharacterPos"
    /\ myString = <<LF, TAB, VT>>
    /\ last.index = 3
    /\ last.pos.x > 0
    /\ last.pos.y > 0

====
